---- MODULE Spec2Model ----
(***************************************************************************)
(* Model of the openwork desktop renderer excerpt:                         *)
(*   - OnboardingWizard (overlay): mount effect, handleGetStarted,         *)
(*     the four FeatureCard panels;                                        *)
(*   - ConversationListItem: isActive, handleClick, getStatusIcon;         *)
(*   - the shared auth shapes Session and QuotaStatus with the ingress     *)
(*     boundary the specification requires for them.                       *)
(* The three concerns are independent; each has its own next-state         *)
(* relation (NextOverlay, NextList, NextAuth) over the same variables.     *)
(***************************************************************************)
EXTENDS Integers, Sequences, FiniteSets, TLC

VARIABLES
    phase,        \* overlay lifecycle: "unmounted" | "mounted" | "crashed" | "closed"
    trace,        \* outward calls of the overlay, in program order
    cbLogState,   \* per onComplete invocation: state of that click's log promise then
    clicks,       \* clicks of the Get Started button so far
    renders,      \* renders of the overlay so far
    lastDeps,     \* dependency list the mount effect last ran with
    panels,       \* the feature panels currently rendered by the overlay
    taskStatus,   \* task store: task id -> status
    location,     \* router: current location.pathname
    navCalls,     \* calls made to navigate(), in order
    rowClicks,    \* task id -> clicks on that row so far
    activeClicks, \* clicks that landed on a row shown active at the time
    rowView,      \* task id -> what the row currently renders
    quota,        \* the QuotaStatus record last produced
    session,      \* the accepted Session, or NoSession
    rejected      \* the Session candidate last rejected on ingress, or NoSession

overlayVars == <<phase, trace, cbLogState, clicks, renders, lastDeps, panels>>
listVars == <<taskStatus, location, navCalls, rowClicks, activeClicks, rowView>>
authVars == <<quota, session, rejected>>
vars == <<phase, trace, cbLogState, clicks, renders, lastDeps, panels,
          taskStatus, location, navCalls, rowClicks, activeClicks, rowView,
          quota, session, rejected>>

(***************************************************************************)
(* Bounds                                                                  *)
(***************************************************************************)
MaxClicks == 3
MaxRenders == 2
MaxRowClicks == 3
MaxCalls == 12

(***************************************************************************)
(* Onboarding overlay                                                      *)
(***************************************************************************)

\* What one call of accomplish.logEvent can do at the call site: return its
\* promise, or throw synchronously.
CallOutcomes == {"returns", "throws"}

\* How a returned log promise can settle later.
Settlements == {"resolved", "rejected"}

\* The state of the call right after the call site.
LogEventCall(outcome) == IF outcome = "throws" THEN "threw" ELSE "pending"

LogStarted(outcome) ==
    [kind |-> "logEvent", level |-> "info",
     message |-> "Onboarding wizard started", result |-> LogEventCall(outcome)]

LogCompleted(outcome) ==
    [kind |-> "logEvent", level |-> "info",
     message |-> "Onboarding completed", result |-> LogEventCall(outcome)]

OnCompleteCall ==
    [kind |-> "onComplete", level |-> "", message |-> "", result |-> "returned"]

\* getAccomplish(): the bridge object handed to the component on a render.
GetAccomplish == "accomplish"

\* Variant: an effect without a dependency list runs after every render.
EffectRunsEveryRender(prev, cur) == TRUE

\* useEffect(..., [accomplish]): the effect runs when the dependency differs
\* from the one of its last run (always on the first render).
EffectDepsChanged(prev, cur) == prev # cur

\* The calls the mount effect makes.
EffectCalls(outcome) == <<LogStarted(outcome)>>

\* Variant: the callback is invoked before the log call is issued.
HandleGetStartedCallbackFirst(outcome) ==
    <<OnCompleteCall, LogCompleted(outcome)>>

\* handleGetStarted: logEvent(...) then onComplete(); a throw of the first
\* statement leaves the handler before the second.
HandleGetStartedCalls(outcome) ==
    IF outcome = "throws"
    THEN <<LogCompleted(outcome)>>
    ELSE <<LogCompleted(outcome), OnCompleteCall>>

\* The state of the handler's log promise at the moment onComplete is invoked:
\* the promise is not awaited, so it is as logEvent returned it.
LogStateAtCallback(outcome) == LogEventCall(outcome)

FeatureTones == {"blue", "teal", "purple", "green"}

toneStyles ==
    [t \in FeatureTones |->
        CASE t = "blue" -> "bg-blue-500/10 text-blue-600"
          [] t = "teal" -> "bg-teal-500/10 text-teal-600"
          [] t = "purple" -> "bg-purple-500/10 text-purple-600"
          [] t = "green" -> "bg-green-500/10 text-green-600"]

\* Variant: the last FeatureCard instance is missing.
FeatureCardsThree ==
    << [tone |-> "blue", title |-> "Code Generation",
        description |-> "Generate and modify code with natural language instructions"],
       [tone |-> "teal", title |-> "Browser Automation",
        description |-> "Automate browser tasks with Dev Browser"],
       [tone |-> "purple", title |-> "Task Management",
        description |-> "Track and manage your AI-assisted workflows"] >>

\* The props of the FeatureCard instances, in document order.
FeatureCards ==
    << [tone |-> "blue", title |-> "Code Generation",
        description |-> "Generate and modify code with natural language instructions"],
       [tone |-> "teal", title |-> "Browser Automation",
        description |-> "Automate browser tasks with Dev Browser"],
       [tone |-> "purple", title |-> "Task Management",
        description |-> "Track and manage your AI-assisted workflows"],
       [tone |-> "green", title |-> "Secure & Local",
        description |-> "Your data stays on your machine"] >>

\* FeatureCard: what one panel shows.
FeatureCard(props) ==
    [title |-> props.title, description |-> props.description,
     tone |-> props.tone, iconClass |-> toneStyles[props.tone]]

RenderFeatureCards == [i \in 1..Len(FeatureCards) |-> FeatureCard(FeatureCards[i])]

\* First render: the effect always runs; an error thrown by the effect is
\* uncaught and takes the overlay down.
Mount(outcome) ==
    /\ phase = "unmounted"
    /\ phase' = IF outcome = "throws" THEN "crashed" ELSE "mounted"
    /\ trace' = trace \o EffectCalls(outcome)
    /\ lastDeps' = GetAccomplish
    /\ renders' = renders + 1
    /\ panels' = IF outcome = "throws" THEN <<>> ELSE RenderFeatureCards
    /\ UNCHANGED <<cbLogState, clicks>>
    /\ UNCHANGED listVars
    /\ UNCHANGED authVars

\* A later render (the parent re-renders): the effect runs again only when
\* its dependency changed.
Rerender(outcome) ==
    /\ phase = "mounted"
    /\ renders < MaxRenders
    /\ renders' = renders + 1
    /\ IF EffectDepsChanged(lastDeps, GetAccomplish)
       THEN /\ trace' = trace \o EffectCalls(outcome)
            /\ phase' = IF outcome = "throws" THEN "crashed" ELSE "mounted"
            /\ panels' = IF outcome = "throws" THEN <<>> ELSE RenderFeatureCards
       ELSE /\ outcome = "returns"
            /\ trace' = trace
            /\ phase' = phase
            /\ panels' = RenderFeatureCards
    /\ lastDeps' = GetAccomplish
    /\ UNCHANGED <<cbLogState, clicks>>
    /\ UNCHANGED listVars
    /\ UNCHANGED authVars

\* A click of the Get Started button runs handleGetStarted to completion.
ClickGetStarted(outcome) ==
    /\ phase = "mounted"
    /\ clicks < MaxClicks
    /\ clicks' = clicks + 1
    /\ trace' = trace \o HandleGetStartedCalls(outcome)
    /\ cbLogState' =
         IF \E i \in 1..Len(HandleGetStartedCalls(outcome)) :
                HandleGetStartedCalls(outcome)[i].kind = "onComplete"
         THEN Append(cbLogState, LogStateAtCallback(outcome))
         ELSE cbLogState
    /\ UNCHANGED <<phase, renders, lastDeps, panels>>
    /\ UNCHANGED listVars
    /\ UNCHANGED authVars

\* The logging transport settles a promise it returned earlier.
SettleLog(i, how) ==
    /\ i \in 1..Len(trace)
    /\ trace[i].kind = "logEvent"
    /\ trace[i].result = "pending"
    /\ trace' = [trace EXCEPT ![i].result = how]
    /\ UNCHANGED <<phase, cbLogState, clicks, renders, lastDeps, panels>>
    /\ UNCHANGED listVars
    /\ UNCHANGED authVars

\* The parent removes the overlay.
Unmount ==
    /\ phase = "mounted"
    /\ phase' = "closed"
    /\ panels' = <<>>
    /\ UNCHANGED <<trace, cbLogState, clicks, renders, lastDeps>>
    /\ UNCHANGED listVars
    /\ UNCHANGED authVars

(***************************************************************************)
(* Conversation list item                                                  *)
(***************************************************************************)

TaskIds == {"1", "12", "task_abc"}

\* task.status values the store may hold, recognised or not ("undefined"
\* stands for a task record without a status).
Statuses == {"running", "completed", "failed", "mystery", "undefined"}

\* The task store as the list first sees it.
InitialStatus ==
    [id \in TaskIds |->
        CASE id = "1" -> "running"
          [] id = "12" -> "completed"
          [] id = "task_abc" -> "failed"]

\* `/execution/${task.id}`
ExecutionPath(id) == "/execution/" \o id

\* Pathnames the router may report.
Pathnames ==
    {"/", "/history", "/execution/", "/execution/1/"}
        \cup {ExecutionPath(id) : id \in TaskIds}

\* Variant: a prefix test (startsWith) in place of the equality.
IsActiveStartsWith(pathname, id) ==
    \/ pathname = ExecutionPath(id)
    \/ \E other \in TaskIds : pathname = ExecutionPath(other) /\ other = id \o "2"
    \/ pathname = ExecutionPath(id) \o "/"

\* Variant: the comparison forgets the task id (any execution path matches).
IsActiveAnyExecution(pathname, id) ==
    pathname \in {ExecutionPath(other) : other \in TaskIds}

\* const isActive = location.pathname === `/execution/${task.id}`
IsActive(pathname, id) == pathname = ExecutionPath(id)

\* Variant: the handler skips navigation when the row is already active.
HandleClickUnlessActive(pathname, id) ==
    IF pathname = ExecutionPath(id) THEN <<>> ELSE <<ExecutionPath(id)>>

\* handleClick: the paths it passes to navigate(), in order.
HandleClick(pathname, id) == <<ExecutionPath(id)>>

\* navigate(path): the router makes path the current location.
Navigate(pathname, path) == path

\* Variant: the final return falls back to the check icon.
GetStatusIconNoDefault(status) ==
    IF status = "running" THEN "Loader2 animate-spin" ELSE "CheckCircle2"

\* getStatusIcon()
GetStatusIcon(status) ==
    IF status = "running" THEN "Loader2 animate-spin"
    ELSE IF status = "completed" THEN "CheckCircle2"
    ELSE "null"

BaseClasses ==
    {"w-full", "text-left", "px-3", "py-2", "rounded-md", "text-sm",
     "transition-colors", "duration-200", "text-zinc-700", "hover:bg-accent",
     "hover:text-accent-foreground", "flex", "items-center", "gap-2"}

ActiveClasses == {"bg-accent", "text-accent-foreground"}

\* cn(...): falsy arguments contribute no class.
RowClassName(active) == BaseClasses \cup (IF active THEN ActiveClasses ELSE {})

\* {getStatusIcon()}: null renders nothing.
RowIcons(status) ==
    IF GetStatusIcon(status) = "null" THEN <<>> ELSE <<GetStatusIcon(status)>>

\* One render of ConversationListItem for a task under a location.
RenderRow(pathname, id, status) ==
    [className |-> RowClassName(IsActive(pathname, id)), icons |-> RowIcons(status)]

\* Every row re-renders when the location or the task store changes.
RenderRows(pathname, store) ==
    [id \in TaskIds |-> RenderRow(pathname, id, store[id])]

RECURSIVE SumClicks(_, _)
SumClicks(f, S) ==
    IF S = {} THEN 0
    ELSE LET x == CHOOSE y \in S : TRUE IN f[x] + SumClicks(f, S \ {x})

TotalRowClicks == SumClicks(rowClicks, TaskIds)

\* A click on the row of task id.
RowClick(id) ==
    /\ TotalRowClicks < MaxRowClicks
    /\ rowClicks' = [rowClicks EXCEPT ![id] = @ + 1]
    /\ activeClicks' =
         IF ActiveClasses \subseteq rowView[id].className
         THEN activeClicks + 1 ELSE activeClicks
    /\ navCalls' = navCalls \o HandleClick(location, id)
    /\ location' =
         IF HandleClick(location, id) = <<>> THEN location
         ELSE Navigate(location, HandleClick(location, id)[Len(HandleClick(location, id))])
    /\ rowView' = RenderRows(location', taskStatus)
    /\ UNCHANGED taskStatus
    /\ UNCHANGED overlayVars
    /\ UNCHANGED authVars

\* The location changes for a reason other than a row click.
LocationChange(p) ==
    /\ p \in Pathnames
    /\ p # location
    /\ location' = p
    /\ rowView' = RenderRows(p, taskStatus)
    /\ UNCHANGED <<taskStatus, navCalls, rowClicks, activeClicks>>
    /\ UNCHANGED overlayVars
    /\ UNCHANGED authVars

\* The task store replaces a task's status.
TaskStatusChange(id, s) ==
    /\ s # taskStatus[id]
    /\ taskStatus' = [taskStatus EXCEPT ![id] = s]
    /\ rowView' = RenderRows(location, taskStatus')
    /\ UNCHANGED <<location, navCalls, rowClicks, activeClicks>>
    /\ UNCHANGED overlayVars
    /\ UNCHANGED authVars

(***************************************************************************)
(* Auth shapes: Session and QuotaStatus, and the boundary that admits them *)
(***************************************************************************)

\* ISO-8601 timestamps as they travel in createdAt / expiresAt.
Timestamps ==
    {"2023-12-31T23:59:59Z", "2024-01-01T00:00:00Z", "2024-01-01T01:00:00+01:00",
     "2024-01-01T00:00:01Z", "2024-01-31T00:00:00Z"}

\* The instant a timestamp denotes, in seconds since the epoch.
ParseTimestamp(ts) ==
    CASE ts = "2023-12-31T23:59:59Z" -> 1704067199
      [] ts = "2024-01-01T00:00:00Z" -> 1704067200
      [] ts = "2024-01-01T01:00:00+01:00" -> 1704067200
      [] ts = "2024-01-01T00:00:01Z" -> 1704067201
      [] ts = "2024-01-31T00:00:00Z" -> 1706659200

\* interface Session (the optional device fields are left out).
SessionShape ==
    [id : {"s1"}, userId : {"u1"}, createdAt : Timestamps, expiresAt : Timestamps]

NoSession == [id |-> "", userId |-> "", createdAt |-> "", expiresAt |-> ""]

\* interface QuotaStatus (resetsAt is optional and left out).
QuotaShape == [callsUsed : Int, callsLimit : Int, remaining : Int]

\* Variant: the validator admits expiresAt equal to createdAt.
ValidSessionNonStrict(s) == ParseTimestamp(s.expiresAt) >= ParseTimestamp(s.createdAt)

\* The ingress validator's rule for a Session.
ValidSession(s) == ParseTimestamp(s.expiresAt) > ParseTimestamp(s.createdAt)

\* Variant: the producer does not clamp.
MakeQuotaStatusUnclamped(used, limit) ==
    [callsUsed |-> used, callsLimit |-> limit, remaining |-> limit - used]

\* A conforming producer of QuotaStatus derives remaining from the counters.
MakeQuotaStatus(used, limit) ==
    [callsUsed |-> used, callsLimit |-> limit,
     remaining |-> IF used >= limit THEN 0 ELSE limit - used]

\* A Session record arrives at the boundary (login).
IngestSession(s) ==
    /\ s \in SessionShape
    /\ IF ValidSession(s)
       THEN session' = s /\ rejected' = rejected
       ELSE session' = session /\ rejected' = s
    /\ UNCHANGED quota
    /\ UNCHANGED overlayVars
    /\ UNCHANGED listVars

\* Logout or expiry destroys the session.
DestroySession ==
    /\ session # NoSession
    /\ session' = NoSession
    /\ UNCHANGED <<quota, rejected>>
    /\ UNCHANGED overlayVars
    /\ UNCHANGED listVars

\* The backend reports the quota counters.
ProduceQuota(used, limit) ==
    /\ MakeQuotaStatus(used, limit) \in QuotaShape
    /\ quota' = MakeQuotaStatus(used, limit)
    /\ quota' # quota
    /\ UNCHANGED <<session, rejected>>
    /\ UNCHANGED overlayVars
    /\ UNCHANGED listVars

(***************************************************************************)
(* Specifications                                                          *)
(***************************************************************************)

Init ==
    /\ phase = "unmounted"
    /\ trace = <<>>
    /\ cbLogState = <<>>
    /\ clicks = 0
    /\ renders = 0
    /\ lastDeps = "none"
    /\ panels = <<>>
    /\ taskStatus = InitialStatus
    /\ location = "/"
    /\ navCalls = <<>>
    /\ rowClicks = [id \in TaskIds |-> 0]
    /\ activeClicks = 0
    /\ rowView = RenderRows(location, taskStatus)
    /\ quota = MakeQuotaStatus(0, 0)
    /\ session = NoSession
    /\ rejected = NoSession

NextOverlay ==
    \/ \E o \in CallOutcomes : Mount(o)
    \/ \E o \in CallOutcomes : Rerender(o)
    \/ \E o \in CallOutcomes : ClickGetStarted(o)
    \/ \E i \in 1..(MaxClicks + MaxRenders + 1), how \in Settlements : SettleLog(i, how)
    \/ Unmount

NextList ==
    \/ \E id \in TaskIds : RowClick(id)
    \/ \E p \in Pathnames : LocationChange(p)
    \/ \E id \in TaskIds, s \in Statuses : TaskStatusChange(id, s)

NextAuth ==
    \/ \E s \in SessionShape : IngestSession(s)
    \/ DestroySession
    \/ \E used \in 0..MaxCalls, limit \in 0..MaxCalls : ProduceQuota(used, limit)

Next == NextOverlay \/ NextList \/ NextAuth

SpecOverlay == Init /\ [][NextOverlay]_vars
SpecList == Init /\ [][NextList]_vars
SpecAuth == Init /\ [][NextAuth]_vars
Spec == Init /\ [][Next]_vars

(***************************************************************************)
(* Properties                                                              *)
(***************************************************************************)

IsStartedLog(c) ==
    c.kind = "logEvent" /\ c.level = "info" /\ c.message = "Onboarding wizard started"

IsCompletedLog(c) ==
    c.kind = "logEvent" /\ c.level = "info" /\ c.message = "Onboarding completed"

NumStartedLogs == Cardinality({i \in DOMAIN trace : IsStartedLog(trace[i])})
NumCompletedLogs == Cardinality({i \in DOMAIN trace : IsCompletedLog(trace[i])})
NumCallbacks == Cardinality({i \in DOMAIN trace : trace[i].kind = "onComplete"})

\* C1: after N clicks of Get Started on a mounted overlay there have been
\* exactly N "Onboarding completed" info log events and exactly N invocations
\* of the completion callback.
C1_EachClickLogsAndCompletesOnce ==
    /\ NumCompletedLogs = clicks
    /\ NumCallbacks = clicks

\* C2: over the lifetime of one mounted overlay, whatever the re-renders and
\* clicks, exactly one log event with level "info" and message "Onboarding
\* wizard started" is emitted (and none before the mount).
C2_ExactlyOneStartedLog ==
    /\ phase = "unmounted" => NumStartedLogs = 0
    /\ phase # "unmounted" =>
         /\ NumStartedLogs = 1
         /\ Cardinality({i \in DOMAIN trace :
                            trace[i].message = "Onboarding wizard started"}) = 1
         /\ IsStartedLog(trace[1])

C2_Witness ==
    /\ phase = "mounted"
    /\ renders >= 2
    /\ clicks >= 2
    /\ NumStartedLogs = 1

\* C3: whenever the "Onboarding completed" log call of a click fails, by
\* throwing or by a promise that rejects, the completion callback is still
\* invoked for that click, right after the log call.
C3_LogFailureDoesNotBlockCompletion ==
    \A i \in DOMAIN trace :
        (IsCompletedLog(trace[i]) /\ trace[i].result \in {"threw", "rejected"}) =>
            /\ i + 1 \in DOMAIN trace
            /\ trace[i + 1].kind = "onComplete"

RowShownActive(id) == {"bg-accent", "text-accent-foreground"} \subseteq rowView[id].className

\* C4: in every state, for every task, the row is shown active if and only if
\* the current pathname equals "/execution/" followed by the task id.
C4_ActiveIffPathnameMatches ==
    \A id \in TaskIds :
        /\ RowShownActive(id) <=> location = "/execution/" \o id
        /\ ~RowShownActive(id) =>
               rowView[id].className \cap {"bg-accent", "text-accent-foreground"} = {}

C4_Witness ==
    /\ location = "/execution/1"
    /\ navCalls = <<>>
    /\ RowShownActive("1")
    /\ ~RowShownActive("12")

NavCallsTo(path) == Cardinality({i \in DOMAIN navCalls : navCalls[i] = path})

\* C5: after any clicks, navigate has been called once per click, each call
\* of a row's click with exactly "/execution/" followed by its task id, also
\* for clicks on a row that was already active.
C5_OneNavigatePerClick ==
    /\ Len(navCalls) = TotalRowClicks
    /\ \A id \in TaskIds : NavCallsTo("/execution/" \o id) = rowClicks[id]

C5_Witness ==
    /\ activeClicks >= 1
    /\ \E id \in TaskIds : rowClicks[id] >= 2
    /\ \E id \in TaskIds : rowClicks[id] = 0

\* C6: a row of a running task shows exactly one spinning indicator and no
\* check, a row of a completed task exactly one check and no spinner, and a
\* row of a task with any other status shows no status icon.
C6_StatusIconTotalMapping ==
    \A id \in TaskIds :
        /\ taskStatus[id] = "running" => rowView[id].icons = <<"Loader2 animate-spin">>
        /\ taskStatus[id] = "completed" => rowView[id].icons = <<"CheckCircle2">>
        /\ taskStatus[id] \notin {"running", "completed"} => rowView[id].icons = <<>>

C6_Witness ==
    /\ taskStatus["1"] = "mystery" /\ rowView["1"].icons = <<>>
    /\ taskStatus["12"] = "running" /\ Len(rowView["12"].icons) = 1
    /\ taskStatus["task_abc"] = "undefined" /\ rowView["task_abc"].icons = <<>>

PanelsWellFormed ==
    /\ Len(panels) = 4
    /\ \A i \in DOMAIN panels :
          /\ panels[i].title # ""
          /\ panels[i].description # ""
          /\ panels[i].tone \in {"blue", "teal", "purple", "green"}

\* C7: a mounted overlay always shows exactly four feature panels, each with
\* a non-empty title, a non-empty description and one of the tones blue,
\* teal, purple, green, and no operation on a mounted overlay changes them.
C7_FourStaticPanels ==
    /\ [](phase = "mounted" => PanelsWellFormed)
    /\ [][(phase = "mounted" /\ phase' = "mounted") => panels' = panels]_vars

C7_Witness ==
    /\ phase = "mounted"
    /\ clicks >= 2
    /\ renders >= 2
    /\ PanelsWellFormed

Max(a, b) == IF a >= b THEN a ELSE b

\* C8: the QuotaStatus record satisfies remaining = max(0, callsLimit -
\* callsUsed) and remaining >= 0; 7 used of 10 leaves 3, 12 used of 10 leaves 0.
C8_RemainingClamped ==
    /\ quota.remaining = Max(0, quota.callsLimit - quota.callsUsed)
    /\ quota.remaining >= 0
    /\ (quota.callsUsed = 7 /\ quota.callsLimit = 10) => quota.remaining = 3
    /\ (quota.callsUsed = 12 /\ quota.callsLimit = 10) => quota.remaining = 0

C8_Witness ==
    /\ quota.callsUsed = 12
    /\ quota.callsLimit = 10
    /\ quota.remaining = 0

\* C9: the accepted Session always expires strictly after it was created; a
\* candidate whose expiresAt equals or precedes createdAt is rejected and is
\* never the accepted Session.
C9_AcceptedSessionExpiresLater ==
    /\ session # NoSession =>
         ParseTimestamp(session.expiresAt) > ParseTimestamp(session.createdAt)
    /\ rejected # NoSession =>
         ParseTimestamp(rejected.expiresAt) <= ParseTimestamp(rejected.createdAt)
    /\ ~(/\ session.createdAt = "2024-01-01T00:00:00Z"
         /\ session.expiresAt = "2024-01-01T00:00:00Z")

C9_Witness ==
    /\ rejected.createdAt = "2024-01-01T00:00:00Z"
    /\ rejected.expiresAt = "2024-01-01T00:00:00Z"
    /\ session # NoSession

\* C10: before the first click the only side effect is the one "Onboarding
\* wizard started" log; every invocation of the completion callback comes
\* right after an "Onboarding completed" log call whose promise is still
\* pending; callbacks <= completed log calls <= clicks.
C10_SideEffectOrdering ==
    /\ clicks = 0 =>
         /\ \A i \in DOMAIN trace : IsStartedLog(trace[i])
         /\ Len(trace) <= 1
         /\ cbLogState = <<>>
    /\ \A i \in DOMAIN trace :
         trace[i].kind = "onComplete" =>
            /\ i > 1
            /\ IsCompletedLog(trace[i - 1])
            /\ trace[i - 1].result # "threw"
    /\ Len(cbLogState) = NumCallbacks
    /\ \A k \in DOMAIN cbLogState : cbLogState[k] = "pending"
    /\ NumCallbacks <= NumCompletedLogs
    /\ NumCompletedLogs <= clicks

C10_Witness ==
    /\ clicks >= 2
    /\ NumCallbacks >= 1
    /\ NumCallbacks < NumCompletedLogs
    /\ trace[Len(trace)].kind = "onComplete"
    /\ trace[Len(trace) - 1].result = "pending"

ActiveRows == {id \in TaskIds : RowShownActive(id)}

\* C11: over rows of tasks with distinct ids sharing one location, after any
\* clicks and location changes at most one row is shown active, and it is
\* the row whose "/execution/{id}" equals the location; a click on a row
\* leaves that row the only active one (the router having taken the
\* requested path) and changes neither the task store nor any other row's
\* click record.
C11_SingleActiveRowFollowsLocation ==
    /\ [](/\ Cardinality(ActiveRows) <= 1
          /\ ActiveRows = {id \in TaskIds : "/execution/" \o id = location})
    /\ [][\A id \in TaskIds :
            rowClicks'[id] = rowClicks[id] + 1 =>
               /\ {other \in TaskIds :
                     {"bg-accent", "text-accent-foreground"}
                        \subseteq rowView'[other].className} = {id}
               /\ taskStatus' = taskStatus]_vars

C11_Witness ==
    /\ Len(navCalls) >= 2
    /\ navCalls[Len(navCalls) - 1] = "/execution/1"
    /\ navCalls[Len(navCalls)] = "/execution/12"
    /\ location = "/execution/12"
    /\ ActiveRows = {"12"}

====
